---- MODULE Spec2Model ----
(***************************************************************************)
(* Model of the product-advisor RAG API: the request handler handleQuery   *)
(* (src/controllers/chatController.js), the cache and memory services and  *)
(* the catalog lookup, over an abstract document store and LLM.            *)
(*                                                                         *)
(* Strings are modelled as sequences of tokens (Text).  A token is a TLA+  *)
(* string standing for a run of characters: "W" is whitespace, "F" is a    *)
(* ``` fence, "L" is the word json, "X" is prose, "J..." is a complete     *)
(* JSON document, "NL" is a newline.                                       *)
(***************************************************************************)
EXTENDS Integers, Sequences, FiniteSets, TLC

\* ------------------------------------------------------------------ bounds
MaxRequests == 2
MaxPrePairs == 5

\* --------------------------------------------------------- program constants
HistoryWindow == 10
SummaryEvery == 10
TimeoutSeconds == 15

Reqs == {1, 2}
SeqReqs == {1}

NoLoader == <<"NOLOADER">>
DefaultUser == "default_user"

\* ------------------------------------------------------------- text helpers
IsWs(t) == t \in {"W", "NL"}

RECURSIVE TrimStart(_)
TrimStart(s) == IF s # <<>> /\ IsWs(Head(s)) THEN TrimStart(Tail(s)) ELSE s

RECURSIVE TrimEnd(_)
TrimEnd(s) ==
    IF s # <<>> /\ IsWs(s[Len(s)]) THEN TrimEnd(SubSeq(s, 1, Len(s) - 1)) ELSE s

Trim(s) == TrimEnd(TrimStart(s))

Includes(s, t) == \E i \in 1..Len(s) : s[i] = t

RECURSIVE Join(_, _)
Join(texts, sep) ==
    IF texts = <<>> THEN <<>>
    ELSE IF Len(texts) = 1 THEN texts[1]
    ELSE texts[1] \o sep \o Join(Tail(texts), sep)

SliceLast(s, n) == IF Len(s) <= n THEN s ELSE SubSeq(s, Len(s) - n + 1, Len(s))

\* First index >= from where s holds token t, or 0.
RECURSIVE IndexFrom(_, _, _)
IndexFrom(s, t, from) ==
    IF from > Len(s) THEN 0
    ELSE IF s[from] = t THEN from
    ELSE IndexFrom(s, t, from + 1)

\* ------------------------------------------------------------ JSON documents
Str(text) == [isString |-> TRUE, text |-> text]
NonStr(text) == [isString |-> FALSE, text |-> text]
Arr(items) == [isArray |-> TRUE, items |-> items]
NonArr == [isArray |-> FALSE, items |-> <<>>]

TroublePhrase == "I had a little trouble formatting my response"
AnswerA1 == <<"Try", "the", "stroller">>
AnswerA2 == <<"A", "car", "seat">>

\* What JSON.parse yields for each JSON document token.
JsonObj(answer, related) == [kind |-> "object", answer |-> answer, relatedProducts |-> related]
JsonNull == [kind |-> "null", answer |-> NonStr(<<>>), relatedProducts |-> NonArr]
JsonNumber == [kind |-> "number", answer |-> NonStr(<<>>), relatedProducts |-> NonArr]

JsonTokens == {"J1", "J2", "Jblank", "Jnoans", "Jnorp", "Jnull", "Jnum", "Jtrouble"}

JsonValue(tok) ==
    CASE tok = "J1" -> JsonObj(Str(AnswerA1), Arr(<<Str(<<"s1">>), NonStr(<<"2">>)>>))
      [] tok = "J2" -> JsonObj(Str(AnswerA2), Arr(<<Str(<<"s3">>), Str(<<"s1">>)>>))
      [] tok = "Jblank" -> JsonObj(Str(<<"W">>), Arr(<<Str(<<"s1">>)>>))
      [] tok = "Jnoans" -> JsonObj(NonStr(<<"5">>), Arr(<<>>))
      [] tok = "Jnorp" -> JsonObj(Str(AnswerA1), NonArr)
      [] tok = "Jnull" -> JsonNull
      [] tok = "Jnum" -> JsonNumber
      [] tok = "Jtrouble" -> JsonObj(Str(<<TroublePhrase, "X">>), Arr(<<>>))

\* JSON.parse: surrounding whitespace is allowed, anything else is a syntax error.
JsonParses(s) == Len(Trim(s)) = 1 /\ Trim(s)[1] \in JsonTokens
JsonParse(s) == JsonValue(Trim(s)[1])

\* ------------------------------------------------------------- LLM results
Undef == NonStr(<<>>)
Truthy(v) == v.text # <<>>

Result(answer, content, text, response) ==
    [answer |-> answer, content |-> content, text |-> text, response |-> response]

LLMTexts ==
    { <<"J1">>,
      <<"F", "L", "NL", "J2", "NL", "F">>,
      <<"X", "NL", "F", "J1", "F", "X">>,
      <<"W", "J2", "NL">>,
      <<"X", "J1">>,
      <<"W">>,
      <<"F", "F", "J1">>,
      <<"F", "L", "J1">>,
      <<"F", "X", "F", "F", "J1", "F">>,
      <<"F", "L", "W", "F", "J1", "F">>,
      <<"Jblank">>, <<"Jnoans">>, <<"Jnorp">>, <<"Jnull">>, <<"Jnum">>,
      <<"F", "Jtrouble", "F">> }

LLMResults ==
    { Result(Str(t), Undef, Undef, Undef) : t \in LLMTexts }
    \cup { Result(Undef, Undef, Undef, Undef),
           Result(Str(<<>>), Str(<<"J2">>), Undef, Undef),
           Result(Undef, Undef, Str(<<"J1">>), Str(<<"X">>)),
           Result(Undef, Undef, Undef, Str(<<"F", "J2", "F">>)),
           Result(NonStr(<<"5">>), Str(<<"J1">>), Undef, Undef) }

\* part_007:93  result.answer || result.content || result.text || result.response || ''
ExtractOutput(result) ==
    IF Truthy(result.answer) THEN result.answer
    ELSE IF Truthy(result.content) THEN result.content
    ELSE IF Truthy(result.text) THEN result.text
    ELSE IF Truthy(result.response) THEN result.response
    ELSE Str(<<>>)

\* part_007:105  llmOutputString.match(/```(?:json)?\s*([\s\S]*?)```/):
\* the leftmost fence that has a later fence opens the block; the optional
\* json tag and the whitespace after it are consumed greedily, the capture
\* runs lazily to the next fence.
CodeBlockMatches(s) ==
    LET i == IndexFrom(s, "F", 1) IN i # 0 /\ IndexFrom(s, "F", i + 1) # 0

RECURSIVE SkipWs(_, _)
SkipWs(s, p) == IF p <= Len(s) /\ IsWs(s[p]) THEN SkipWs(s, p + 1) ELSE p

CodeBlockCapture(s) ==
    LET i == IndexFrom(s, "F", 1)
        j == IndexFrom(s, "F", i + 1)
        afterTag == IF s[i + 1] = "L" THEN i + 2 ELSE i + 1
        p == SkipWs(s, afterTag)
    IN  SubSeq(s, p, j - 1)

\* CleanedOutput without the extraction of the fenced block.
CleanedOutput_Raw(s) == s

\* part_007:103-107
CleanedOutput(s) ==
    IF Includes(s, "F") /\ CodeBlockMatches(s) /\ CodeBlockCapture(s) # <<>>
    THEN Trim(CodeBlockCapture(s))
    ELSE s

\* part_007:115  sku => typeof sku === 'string' ? sku : String(sku)
CoerceSku(v) == v.text

RECURSIVE MapSkus(_)
MapSkus(items) ==
    IF items = <<>> THEN <<>> ELSE <<CoerceSku(Head(items))>> \o MapSkus(Tail(items))

\* ParseOk without the test of the parsed value's fields.
ParseOk_AnyJson(out) ==
    /\ out.isString
    /\ Trim(out.text) # <<>>
    /\ JsonParses(CleanedOutput(out.text))

\* part_007:98-113: the parse succeeds when no statement of the try block throws
\* before the catalog lookup.
ParseOk(out) ==
    /\ out.isString
    /\ Trim(out.text) # <<>>
    /\ JsonParses(CleanedOutput(out.text))
    /\ LET v == JsonParse(CleanedOutput(out.text))
       IN  /\ v.kind = "object"
           /\ v.answer.isString
           /\ v.relatedProducts.isArray

ParsedJson(out) == JsonParse(CleanedOutput(out.text))

\* part_007:121-124
FallbackAnswer(out) ==
    <<TroublePhrase, "perfectly. Here's the main information:">>
        \o (IF Truthy(out) THEN out.text ELSE <<"Not available">>)

\* A response body; details is <<>> when the field is absent.
Body(answer, related, details) ==
    [answer |-> answer, relatedProducts |-> related, details |-> details]

FallbackBody(out) == Body(Str(FallbackAnswer(out)), Arr({}), <<>>)

\* IsValidResponse without the test for the fallback phrase.
IsValidResponse_AnyText(body) ==
    /\ body.answer.isString
    /\ Trim(body.answer.text) # <<>>

\* part_007:128-129
IsValidResponse(body) ==
    /\ body.answer.isString
    /\ Trim(body.answer.text) # <<>>
    /\ ~Includes(body.answer.text, TroublePhrase)


\* ------------------------------------------------------------ product catalog
Catalog ==
    { [sku |-> <<"s1">>, name |-> "Stroller"],
      [sku |-> <<"2">>, name |-> "Bottle"],
      [sku |-> <<"s9">>, name |-> "Crib"] }

\* GetProductsBySKUs with a query that selects every product.
GetProductsBySKUs_All(dbReady, skus, queryFails) ==
    IF ~dbReady THEN {}
    ELSE IF ~skus.isArray \/ skus.items = <<>> THEN {}
    ELSE IF queryFails THEN {}
    ELSE Catalog

\* db.mjs:279-298 (and the SQLite variant, db.mjs:144-169); queryFails is the
\* catalog query throwing.
GetProductsBySKUs(dbReady, skus, queryFails) ==
    IF ~dbReady THEN {}
    ELSE IF ~skus.isArray \/ skus.items = <<>> THEN {}
    ELSE IF queryFails THEN {}
    ELSE { p \in Catalog : \E i \in 1..Len(skus.items) : skus.items[i] = p.sku }

\* ------------------------------------------------------------------ requests
Q1 == <<"q1">>
Q2 == <<"q2">>
U1 == <<"u1">>
UserIds == {U1, <<DefaultUser>>}

Child(name, age) == [name |-> name, age |-> age]
Emma == Child(<<"Emma">>, <<"2">>)

NoProfile == [name |-> Undef, children |-> <<>>]
AnnProfile == [name |-> Str(<<"Ann">>), children |-> <<Emma>>]

AllBodies ==
    [ query : {Undef, Str(<<>>), Str(Q1)},
      question : {Undef, Str(Q2)},
      userDotId : {Undef, Str(U1)},
      userId : {Undef, Str(U1)},
      user : {NoProfile, AnnProfile} ]

\* The request bodies tried: the usual body, and the bodies that differ from
\* it in the query fields, in the user id fields or in the profile.
UsualBody ==
    [query |-> Str(Q1), question |-> Undef, userDotId |-> Str(U1), userId |-> Undef,
     user |-> AnnProfile]

Deviations(b) ==
    (IF <<b.query, b.question>> # <<UsualBody.query, UsualBody.question>> THEN 1 ELSE 0)
    + (IF <<b.userDotId, b.userId>> # <<UsualBody.userDotId, UsualBody.userId>> THEN 1 ELSE 0)
    + (IF b.user # UsualBody.user THEN 1 ELSE 0)

RequestBodies == { b \in AllBodies : Deviations(b) <= 1 }

\* part_007:24   req.body.query || req.body.question
UserQueryOf(b) == IF Truthy(b.query) THEN b.query ELSE b.question

\* part_007:26   user.id || req.body.userId || req.query.userId || 'default_user'
UserIdOf(b) ==
    IF Truthy(b.userDotId) THEN b.userDotId.text
    ELSE IF Truthy(b.userId) THEN b.userId.text
    ELSE <<DefaultUser>>

\* part_007:27   user.name || ''
UserNameOf(b) == IF Truthy(b.user.name) THEN b.user.name.text ELSE <<>>

\* JSON.stringify({ name, children })
RECURSIVE StringifyChildren(_)
StringifyChildren(cs) ==
    IF cs = <<>> THEN <<>>
    ELSE <<"{name:">> \o Head(cs).name \o <<",age:">> \o Head(cs).age \o <<"}">>
         \o (IF Len(cs) > 1 THEN <<",">> ELSE <<>>) \o StringifyChildren(Tail(cs))

Stringify(meta) ==
    <<"{name:">> \o meta.name \o <<",children:[">> \o StringifyChildren(meta.children) \o <<"]}">>

\* cacheService.js:13-16
GenerateCacheKey(userId, query, userMetadata) ==
    <<"cache", ":">> \o userId \o <<":">> \o query \o <<":">> \o Stringify(userMetadata)

\* memoryService.js:19 and :120
MemoryKey(userId) == <<"memory", ":">> \o userId \o <<":", "last_summary">>

\* ------------------------------------------------------------ document store
EmptyBody == Body(Str(<<>>), Arr({}), <<>>)
NullDoc == [found |-> FALSE, loaderId |-> <<>>, key |-> <<>>,
            hasData |-> FALSE, data |-> EmptyBody, text |-> <<>>]
CacheDoc(loaderId, key, data) ==
    [found |-> TRUE, loaderId |-> loaderId, key |-> key,
     hasData |-> TRUE, data |-> data, text |-> <<>>]
MemoryDoc(loaderId, key, text) ==
    [found |-> TRUE, loaderId |-> loaderId, key |-> key,
     hasData |-> FALSE, data |-> EmptyBody, text |-> text]

\* customData collection: items are identified by loaderId and key.
LoaderCustomSet(docs, doc) ==
    { d \in docs : ~(d.loaderId = doc.loaderId /\ d.key = doc.key) } \cup {doc}

\* The documents a lookup may return.  With both identifiers it is the item
\* they identify (or nothing); with the loaderId omitted the item is not
\* properly identified: the lookup returns an item with that key or nothing.
LoaderCustomGet(docs, key, loaderId) ==
    IF loaderId = NoLoader
    THEN { d \in docs : d.key = key } \cup {NullDoc}
    ELSE IF \E d \in docs : d.key = key /\ d.loaderId = loaderId
         THEN { d \in docs : d.key = key /\ d.loaderId = loaderId }
         ELSE {NullDoc}

NoConversation == <<[role |-> "NONE", content |-> <<>>]>>
Entry(role, content) == [role |-> role, content |-> content]

HasConversation(convs, id) == convs[id] # NoConversation
AddConversation(convs, id) == [convs EXCEPT ![id] = <<>>]
AddEntryToConversation(convs, id, entry) ==
    IF HasConversation(convs, id) THEN [convs EXCEPT ![id] = Append(@, entry)] ELSE convs

\* ------------------------------------------------------------ prompt building
MemoryHeader == "Relevant past information for"
HistoryHeader == "Current conversation history:"
QueryHeader == "User's current query:"

\* RenderTurn without the role prefix.
RenderTurn_ContentOnly(turn) == turn.content

\* part_007:79   `${turn.role}: ${turn.content}`
RenderTurn(turn) == <<turn.role, ": ">> \o turn.content

RECURSIVE RenderTurns(_)
RenderTurns(entries) ==
    IF entries = <<>> THEN <<>> ELSE <<RenderTurn(Head(entries))>> \o RenderTurns(Tail(entries))

\* LimitedHistoryEntries taking the oldest entries: slice(0, 10).
LimitedHistoryEntries_Oldest(entries) ==
    IF Len(entries) <= HistoryWindow THEN entries ELSE SubSeq(entries, 1, HistoryWindow)

\* part_007:78-79
LimitedHistoryEntries(entries) == SliceLast(entries, HistoryWindow)
ShortTermHistoryText(entries) == Join(RenderTurns(LimitedHistoryEntries(entries)), <<"NL">>)

RECURSIVE ProfileChildren(_)
ProfileChildren(cs) ==
    IF cs = <<>> THEN <<>>
    ELSE <<"  - Name:">> \o Head(cs).name \o <<", Age:">> \o Head(cs).age
         \o <<", Gender:", ", Birthday:", "NL">>
         \o ProfileChildren(Tail(cs))

\* part_007:59-69
ProfileSection(userName, children) ==
    IF userName # <<>> \/ Len(children) > 0
    THEN <<"User profile:", "NL">>
         \o (IF userName # <<>> THEN <<"- Name:">> \o userName \o <<"NL">> ELSE <<>>)
         \o (IF Len(children) > 0 THEN <<"- Children:", "NL">> \o ProfileChildren(children) ELSE <<>>)
         \o <<"NL">>
    ELSE <<>>

\* part_007:71-73
MemorySection(userId, longTermMemoryContext) ==
    IF longTermMemoryContext # <<>> /\ Trim(longTermMemoryContext) # <<>>
    THEN <<MemoryHeader>> \o userId \o <<":", "NL">> \o longTermMemoryContext \o <<"NLNL">>
    ELSE <<>>

\* part_007:81-83
HistorySection(entries) ==
    IF ShortTermHistoryText(entries) # <<>>
    THEN <<HistoryHeader, "NL">> \o ShortTermHistoryText(entries) \o <<"NLNL">>
    ELSE <<>>

\* part_007:56-85
BuildPrompt(userId, userName, children, longTermMemoryContext, entries, userQuery) ==
    <<"systemPreamble", "NLNL", "answerFieldDetails", "NLNL", "relatedProductsFieldDetails", "NLNL">>
    \o ProfileSection(userName, children)
    \o MemorySection(userId, longTermMemoryContext)
    \o HistorySection(entries)
    \o <<QueryHeader>> \o userQuery \o <<"NLNL", "closingInstruction">>


\* ------------------------------------------------------------------- state
VARIABLES
    db,              \* db.mjs: the catalog connection is open
    ragApplication,  \* ragService.ragApplication is set
    cacheStore,      \* cacheService.mongoStore is set
    memoryStore,     \* memoryService.mongoStore is set
    customData,      \* store: the customData collection (cache and memories)
    conversations,   \* store: the conversations collection, by conversationId
    req,             \* per invocation of handleQuery: its locals and position
    sent,            \* per invocation: the responses written to res
    eff,             \* per invocation: what it has done to the outside so far
    snap,            \* per invocation: the store as it was when it began
    lastExchange,    \* per user: the exchange stored last, until the next prompt
    exchanges,       \* per user: number of exchanges stored in the conversation
    lastSummary,     \* per user: the summary stored last (<<>>: none)
    writesOk,        \* every store write so far has taken effect
    started          \* number of invocations so far

services == <<db, ragApplication, cacheStore, memoryStore>>
store == <<customData, conversations>>
history == <<lastExchange, exchanges, lastSummary, writesOk>>
vars == <<db, ragApplication, cacheStore, memoryStore, customData, conversations,
          req, sent, eff, snap, lastExchange, exchanges, lastSummary, writesOk, started>>

Numerals == <<"1", "2", "3", "4", "5", "6", "7", "8", "9", "10", "11", "12">>
NumeralOf(n) == IF n <= Len(Numerals) THEN Numerals[n] ELSE "n"

RECURSIVE PreloadedConversation(_)
PreloadedConversation(pairs) ==
    IF pairs = 0 THEN <<>>
    ELSE PreloadedConversation(pairs - 1)
         \o << Entry("User", <<"old question", NumeralOf(pairs)>>),
               Entry("Bot", <<"old answer", NumeralOf(pairs)>>) >>

Summary0 == <<"S0">>

\* The conversation lengths (in exchanges) the store may hold at start: none,
\* one short of each of the first two summarization points, and the bound.
PreloadPairs == {0, SummaryEvery \div 2 - 1, SummaryEvery - 1, MaxPrePairs}

IdleReq ==
    [ pc |-> "idle", path |-> "none",
      userQuery |-> <<>>, userId |-> <<>>, userName |-> <<>>, children |-> <<>>,
      longTermMemoryContext |-> <<>>, memoryRead |-> NullDoc, memoryReadThrew |-> FALSE,
      currentEntries |-> <<>>, historyRead |-> FALSE,
      promptForRAG |-> <<>>,
      llmOutputString |-> Str(<<>>), skus |-> Arr(<<>>), catalogRead |-> FALSE,
      botResponseJson |-> EmptyBody,
      entriesAdded |-> FALSE, cacheSet |-> FALSE,
      summaryRead |-> FALSE, summary |-> Str(<<>>),
      summarizeThrew |-> FALSE, summaryStored |-> FALSE,
      waited |-> 0, timedOut |-> FALSE, lateResult |-> "none",
      cacheGetLoaderId |-> <<>>, memoryGetLoaderId |-> <<>>,
      cacheReadFailed |-> FALSE, summarizedLength |-> 0 ]

NoEffects == [llm |-> 0, entries |-> 0, cacheWrites |-> 0, memWrites |-> 0, summaries |-> 0]
NoExchange == [set |-> FALSE, query |-> <<>>, answer |-> <<>>]
Exchange(query, answer) == [set |-> TRUE, query |-> query, answer |-> answer]

\* The services start unconstructed (part_009:8-11, cacheService.js:4-6,
\* memoryService.js:4-6, db.mjs: let db = null); the external store holds
\* what earlier runs left in it: a conversation of whole exchanges and, once
\* the conversation has reached a summarization point, a summary.
InitWith(preloads) ==
    /\ db = FALSE
    /\ ragApplication = FALSE
    /\ cacheStore = FALSE
    /\ memoryStore = FALSE
    /\ \E pairs \in preloads :
          /\ conversations =
                [id \in UserIds |-> IF id = U1 THEN PreloadedConversation(pairs) ELSE NoConversation]
          /\ customData =
                IF 2 * pairs >= SummaryEvery THEN {MemoryDoc(U1, MemoryKey(U1), Summary0)} ELSE {}
          /\ exchanges = [id \in UserIds |-> IF id = U1 THEN pairs ELSE 0]
          /\ lastSummary =
                [id \in UserIds |-> IF id = U1 /\ 2 * pairs >= SummaryEvery THEN Summary0 ELSE <<>>]
    /\ req = [r \in Reqs |-> IdleReq]
    /\ sent = [r \in Reqs |-> <<>>]
    /\ eff = [r \in Reqs |-> NoEffects]
    /\ snap = [r \in Reqs |-> [customData |-> {}, conversations |-> [id \in UserIds |-> NoConversation]]]
    /\ lastExchange = [id \in UserIds |-> NoExchange]
    /\ writesOk = TRUE
    /\ started = 0

Init == InitWith(PreloadPairs)

\* ------------------------------------------------------------ initialization
\* part_008:38  initDatabase()
InitDatabase ==
    /\ ~db /\ ~ragApplication
    /\ db' = TRUE
    /\ UNCHANGED <<ragApplication, cacheStore, memoryStore, store, req, sent, eff, snap,
                   history, started>>

\* part_008:46  ragService.initialize()
RagInitialize ==
    /\ db /\ ~ragApplication
    /\ ragApplication' = TRUE
    /\ UNCHANGED <<db, cacheStore, memoryStore, store, req, sent, eff, snap, history, started>>

\* part_008:49-50  cacheService.initialize, memoryService.initialize
ServicesInitialize ==
    /\ ragApplication /\ ~cacheStore
    /\ cacheStore' = TRUE
    /\ memoryStore' = TRUE
    /\ UNCHANGED <<db, ragApplication, store, req, sent, eff, snap, history, started>>

\* ------------------------------------------------------------- handleQuery
\* part_008:27-32: the SIGINT handler closes the store and the catalog database
\* (db.mjs:300-311 sets db to null) and the process exits; invocations in flight
\* may still run while it does.
CloseDatabase ==
    /\ db /\ ragApplication
    /\ db' = FALSE
    /\ UNCHANGED <<ragApplication, cacheStore, memoryStore, store, req, sent, eff, snap,
                   history, started>>

\* The process is shutting down: no new request is taken.
ShuttingDown == ragApplication /\ ~db

Response(status, body) == [status |-> status, body |-> body]

\* res.status(s).json(body) / res.json(body) ending the invocation.
Respond(r, locals, status, body, path) ==
    /\ sent' = [sent EXCEPT ![r] = Append(@, Response(status, body))]
    /\ req' = [req EXCEPT ![r] = [locals EXCEPT !.pc = "done", !.path = path]]

QueryRequiredBody == Body(Str(<<"Query is required.">>), Arr({}), <<>>)
NotInitializedBody ==
    Body(Str(<<"RAG system or prompt configuration not initialized yet for">>), Arr({}), <<>>)
ErrorBody(details) == Body(Str(<<"Error processing your question">>), Arr({}), details)

\* Start reading only body.query: the question alias is ignored.
Start_QueryOnly(r, b) ==
    /\ req[r].pc \in {"idle", "done"}
    /\ ~ShuttingDown
    /\ started < MaxRequests
    /\ started' = started + 1
    /\ eff' = [eff EXCEPT ![r] = NoEffects]
    /\ snap' = [snap EXCEPT ![r] = [customData |-> customData, conversations |-> conversations]]
    /\ LET userQuery == b.query
           locals == [IdleReq EXCEPT !.userQuery = userQuery.text,
                                     !.userId = UserIdOf(b),
                                     !.userName = UserNameOf(b),
                                     !.children = b.user.children]
       IN  IF ~Truthy(userQuery)
           THEN /\ sent' = [sent EXCEPT ![r] = <<Response(400, QueryRequiredBody)>>]
                /\ req' = [req EXCEPT ![r] = [locals EXCEPT !.pc = "done", !.path = "400"]]
           ELSE IF ~ragApplication
           THEN /\ sent' = [sent EXCEPT ![r] = <<Response(503, NotInitializedBody)>>]
                /\ req' = [req EXCEPT ![r] = [locals EXCEPT !.pc = "done", !.path = "503"]]
           ELSE /\ sent' = [sent EXCEPT ![r] = <<>>]
                /\ req' = [req EXCEPT ![r] = [locals EXCEPT !.pc = "cacheRead"]]
    /\ UNCHANGED <<services, store, history>>

\* part_007:22-41: entry of the handler up to the first await.
Start(r, b) ==
    /\ req[r].pc \in {"idle", "done"}
    /\ ~ShuttingDown
    /\ started < MaxRequests
    /\ started' = started + 1
    /\ eff' = [eff EXCEPT ![r] = NoEffects]
    /\ snap' = [snap EXCEPT ![r] = [customData |-> customData, conversations |-> conversations]]
    /\ LET userQuery == UserQueryOf(b)
           locals == [IdleReq EXCEPT !.userQuery = userQuery.text,
                                     !.userId = UserIdOf(b),
                                     !.userName = UserNameOf(b),
                                     !.children = b.user.children]
       IN  IF ~Truthy(userQuery)
           THEN /\ sent' = [sent EXCEPT ![r] = <<Response(400, QueryRequiredBody)>>]
                /\ req' = [req EXCEPT ![r] = [locals EXCEPT !.pc = "done", !.path = "400"]]
           ELSE IF ~ragApplication
           THEN /\ sent' = [sent EXCEPT ![r] = <<Response(503, NotInitializedBody)>>]
                /\ req' = [req EXCEPT ![r] = [locals EXCEPT !.pc = "done", !.path = "503"]]
           ELSE /\ sent' = [sent EXCEPT ![r] = <<>>]
                /\ req' = [req EXCEPT ![r] = [locals EXCEPT !.pc = "cacheRead"]]
    /\ UNCHANGED <<services, store, history>>

\* part_007:45
UserMetadataForCacheKey(l) == [name |-> l.userName, children |-> l.children]
CacheKeyOf(l) == GenerateCacheKey(l.userId, l.userQuery, UserMetadataForCacheKey(l))

\* cacheService.js:29 and memoryService.js:23: loaderCustomGet is called with
\* the key alone, when the service has its store (<<>>: no call is made).
GetLoaderIdArgument(storeSet) == IF storeSet THEN NoLoader ELSE <<>>

\* cacheService.js:18-42: the value getCachedResult returns for the document the
\* store returned; throws is loaderCustomGet throwing.
GetCachedResult(storeSet, doc, throws) ==
    IF ~storeSet THEN NullDoc
    ELSE IF throws THEN NullDoc
    ELSE IF doc.found /\ doc.hasData THEN doc
    ELSE NullDoc

\* CacheRead without the return of part_007:49: the handler goes on after a hit.
CacheRead_NoReturn(r) ==
    /\ req[r].pc = "cacheRead"
    /\ \E throws \in BOOLEAN :
       \E doc \in LoaderCustomGet(customData, CacheKeyOf(req[r]), NoLoader) :
          LET cachedResult == GetCachedResult(cacheStore, doc, throws)
          IN  IF cachedResult.found
              THEN /\ sent' = [sent EXCEPT ![r] = Append(@, Response(200, cachedResult.data))]
                   /\ req' = [req EXCEPT ![r].pc = "memRead", ![r].path = "hit",
                                         ![r].cacheGetLoaderId = GetLoaderIdArgument(cacheStore)]
              ELSE /\ req' = [req EXCEPT ![r].pc = "memRead",
                                         ![r].cacheGetLoaderId = GetLoaderIdArgument(cacheStore),
                                         ![r].cacheReadFailed = (~cacheStore \/ throws)]
                   /\ UNCHANGED sent
    /\ UNCHANGED <<services, store, eff, snap, history, started>>

\* part_007:45-50
CacheRead(r) ==
    /\ req[r].pc = "cacheRead"
    /\ \E throws \in BOOLEAN :
       \E doc \in LoaderCustomGet(customData, CacheKeyOf(req[r]), NoLoader) :
          LET cachedResult == GetCachedResult(cacheStore, doc, throws)
          IN  IF cachedResult.found
              THEN Respond(r, [req[r] EXCEPT !.cacheGetLoaderId = GetLoaderIdArgument(cacheStore)],
                           200, cachedResult.data, "hit")
              ELSE /\ req' = [req EXCEPT ![r].pc = "memRead",
                                         ![r].cacheGetLoaderId = GetLoaderIdArgument(cacheStore),
                                         ![r].cacheReadFailed = (~cacheStore \/ throws)]
                   /\ UNCHANGED sent
    /\ UNCHANGED <<services, store, eff, snap, history, started>>

\* memoryService.js:12-36
GetConversationMemory(storeSet, doc, throws) ==
    IF ~storeSet THEN <<>>
    ELSE IF throws THEN <<>>
    ELSE IF doc.found /\ doc.text # <<>> THEN doc.text
    ELSE <<>>

\* part_007:53
MemRead(r) ==
    /\ req[r].pc = "memRead"
    /\ \E throws \in BOOLEAN :
       \E doc \in LoaderCustomGet(customData, MemoryKey(req[r].userId), NoLoader) :
          req' = [req EXCEPT ![r].pc = "histRead",
                             ![r].memoryGetLoaderId = GetLoaderIdArgument(memoryStore),
                             ![r].memoryRead = IF memoryStore /\ ~throws THEN doc ELSE NullDoc,
                             ![r].memoryReadThrew = (memoryStore /\ throws),
                             ![r].longTermMemoryContext = GetConversationMemory(memoryStore, doc, throws)]
    /\ UNCHANGED <<services, store, sent, eff, snap, history, started>>

\* memoryService.js:38-73.  failAt names the store call that throws ("none":
\* no call throws).  The result is <<conversations after the call, entries>>.
HistoryFailures == {"none", "hasConversation", "addConversation", "getConversation"}

GetConversationHistory(storeSet, convs, id, failAt) ==
    IF ~storeSet THEN <<convs, <<>>>>
    ELSE IF failAt = "hasConversation" THEN <<convs, <<>>>>
    ELSE IF HasConversation(convs, id)
         THEN IF failAt = "getConversation" THEN <<convs, <<>>>> ELSE <<convs, convs[id]>>
    ELSE IF failAt = "addConversation" THEN <<convs, <<>>>>
    ELSE IF failAt = "getConversation" THEN <<AddConversation(convs, id), <<>>>>
    ELSE <<AddConversation(convs, id), AddConversation(convs, id)[id]>>

\* part_007:76-86: the history is read and the prompt is built.
HistRead(r) ==
    /\ req[r].pc = "histRead"
    /\ \E failAt \in HistoryFailures :
          LET res == GetConversationHistory(memoryStore, conversations, req[r].userId, failAt)
              l == req[r]
              read == memoryStore /\ (failAt = "none"
                                      \/ (failAt = "addConversation"
                                          /\ HasConversation(conversations, l.userId)))
          IN  /\ conversations' = res[1]
              /\ writesOk' = (writesOk /\ ~(memoryStore /\ failAt = "addConversation"
                                             /\ ~HasConversation(conversations, l.userId)))
              /\ req' = [req EXCEPT ![r].pc = "llm",
                                    ![r].currentEntries = res[2],
                                    ![r].historyRead = read,
                                    ![r].promptForRAG =
                                        BuildPrompt(l.userId, l.userName, l.children,
                                                    l.longTermMemoryContext, res[2], l.userQuery)]
    /\ UNCHANGED <<services, customData, sent, eff, snap, lastExchange, exchanges, lastSummary, started>>

\* The locals of part_007:53-86 are not read after the prompt is sent.
AfterPrompt(l) ==
    [l EXCEPT !.promptForRAG = <<>>, !.currentEntries = <<>>, !.historyRead = FALSE,
              !.longTermMemoryContext = <<>>, !.memoryRead = NullDoc,
              !.memoryReadThrew = FALSE, !.cacheReadFailed = FALSE]

\* part_007:127-143: once botResponseJson is known, either the save steps
\* follow or the response is sent.
AfterBody(r, locals, body, path) ==
    IF IsValidResponse(body)
    THEN /\ req' = [req EXCEPT ![r] = [locals EXCEPT !.pc = "addUser", !.path = path,
                                                      !.botResponseJson = body]]
         /\ UNCHANGED sent
    ELSE Respond(r, [locals EXCEPT !.botResponseJson = body], 200, body, path)

\* part_007:89-125: the LLM query raced against the 15 s timer, then the
\* extraction and the parse of its output.
LlmOutcomes == {"result", "throws", "timeout"}

\* part_007:89-90: the timer is created and the query is issued; the handler
\* waits for the first of the two to settle.
IssueQuery(r) ==
    /\ req[r].pc = "llm"
    /\ eff' = [eff EXCEPT ![r].llm = @ + 1]
    /\ lastExchange' = [lastExchange EXCEPT ![req[r].userId] = NoExchange]
    /\ req' = [req EXCEPT ![r] = [AfterPrompt(req[r]) EXCEPT !.pc = "wait", !.waited = 0]]
    /\ UNCHANGED <<services, store, sent, snap, exchanges, lastSummary, writesOk, started>>

\* One second passes while the query is pending; the timer of part_007:89
\* fires at 15000 ms.
Tick(r) ==
    /\ req[r].pc = "wait"
    /\ req[r].waited < TimeoutSeconds
    /\ req' = [req EXCEPT ![r].waited = @ + 1]
    /\ UNCHANGED <<services, store, sent, eff, snap, history, started>>

\* RaceOutcomes without the timer: the handler waits for the query alone.
RaceOutcomes_NoTimer(waited) == {"result", "throws"}

\* The outcomes Promise.race can have after the time waited: the query
\* settles first while the timer has not fired, the timer rejects otherwise.
RaceOutcomes(waited) ==
    IF waited < TimeoutSeconds THEN {"result", "throws"} ELSE {"timeout"}

LlmQuery(r) ==
    /\ req[r].pc = "wait"
    /\ \E outcome \in RaceOutcomes(req[r].waited) :
          LET settled == [req[r] EXCEPT !.waited = 0]
          IN  IF outcome = "throws"
              THEN Respond(r, settled, 500, ErrorBody(<<"LLM error">>), "500")
              ELSE IF outcome = "timeout"
              THEN Respond(r, [settled EXCEPT !.timedOut = TRUE, !.lateResult = "pending"], 500,
                           ErrorBody(<<"Request timed out after 15 seconds">>), "500")
              ELSE \E result \in LLMResults :
                      LET out == ExtractOutput(result)
                          l == [settled EXCEPT !.llmOutputString = out]
                      IN  IF ParseOk(out)
                          THEN /\ req' = [req EXCEPT ![r] =
                                            [l EXCEPT !.pc = "enrich", !.path = "parsed",
                                                      !.botResponseJson =
                                                          Body(ParsedJson(out).answer, Arr({}), <<>>),
                                                      !.skus = Arr(MapSkus(ParsedJson(out).relatedProducts.items))]]
                               /\ UNCHANGED sent
                          ELSE AfterBody(r, l, FallbackBody(out), "fallback")
    /\ UNCHANGED <<services, store, eff, snap, history, started>>

\* The query of a request that timed out settles: Promise.race has already
\* settled, the late result is dropped.
LateResult(r) ==
    /\ req[r].lateResult = "pending"
    /\ req' = [req EXCEPT ![r].lateResult = "arrived"]
    /\ UNCHANGED <<services, store, sent, eff, snap, history, started>>

\* Enrich with a getProductsBySKUs that lets the failure of the catalog query
\* reach the catch of part_007:145.
Enrich_Uncaught(r) ==
    /\ req[r].pc = "enrich"
    /\ \E queryFails \in BOOLEAN :
          LET productDetails == GetProductsBySKUs(db, req[r].skus, queryFails)
              body == Body(req[r].botResponseJson.answer, Arr(productDetails), <<>>)
          IN  IF db /\ queryFails
              THEN Respond(r, req[r], 500, ErrorBody(<<"catalog error">>), "500")
              ELSE AfterBody(r, [req[r] EXCEPT !.catalogRead = (db /\ ~queryFails)],
                             body, "parsed")
    /\ UNCHANGED <<services, store, eff, snap, history, started>>

\* part_007:116-117
Enrich(r) ==
    /\ req[r].pc = "enrich"
    /\ \E queryFails \in BOOLEAN :
          LET productDetails == GetProductsBySKUs(db, req[r].skus, queryFails)
              body == Body(req[r].botResponseJson.answer, Arr(productDetails), <<>>)
          IN  AfterBody(r, [req[r] EXCEPT !.catalogRead = (db /\ ~queryFails)],
                        body, "parsed")
    /\ UNCHANGED <<services, store, eff, snap, history, started>>

\* memoryService.js:75-88: the guard and the first addEntryToConversation.
AddUserEntry(r) ==
    /\ req[r].pc = "addUser"
    /\ \E throws \in BOOLEAN :
          IF ~memoryStore \/ throws
          THEN /\ req' = [req EXCEPT ![r].pc = "setCache"]
               /\ writesOk' = FALSE
               /\ UNCHANGED <<conversations, eff>>
          ELSE /\ conversations' = AddEntryToConversation(conversations, req[r].userId,
                                        Entry("User", req[r].userQuery))
               /\ eff' = [eff EXCEPT ![r].entries =
                            IF HasConversation(conversations, req[r].userId) THEN @ + 1 ELSE @]
               /\ writesOk' = (writesOk /\ HasConversation(conversations, req[r].userId))
               /\ req' = [req EXCEPT ![r].pc = "addBot"]
    /\ UNCHANGED <<services, customData, sent, snap, lastExchange, exchanges, lastSummary, started>>

\* memoryService.js:89-100: the second addEntryToConversation.
AddBotEntry(r) ==
    /\ req[r].pc = "addBot"
    /\ \E throws \in BOOLEAN :
          IF throws
          THEN /\ req' = [req EXCEPT ![r].pc = "setCache"]
               /\ writesOk' = FALSE
               /\ UNCHANGED <<conversations, eff, lastExchange, exchanges>>
          ELSE LET stored == HasConversation(conversations, req[r].userId)
                   answer == req[r].botResponseJson.answer.text
               IN  /\ conversations' = AddEntryToConversation(conversations, req[r].userId,
                                            Entry("Bot", answer))
                   /\ eff' = [eff EXCEPT ![r].entries = IF stored THEN @ + 1 ELSE @]
                   /\ writesOk' = (writesOk /\ stored)
                   /\ req' = [req EXCEPT ![r].pc = "setCache", ![r].entriesAdded = TRUE]
                   /\ lastExchange' =
                        IF stored
                        THEN [lastExchange EXCEPT ![req[r].userId] = Exchange(req[r].userQuery, answer)]
                        ELSE lastExchange
                   /\ exchanges' =
                        IF stored THEN [exchanges EXCEPT ![req[r].userId] = @ + 1] ELSE exchanges
    /\ UNCHANGED <<services, customData, sent, snap, lastSummary, started>>

\* SetCachedResult storing under a key built without the user metadata.
SetCachedResult_NoMetadata(r) ==
    /\ req[r].pc = "setCache"
    /\ \E throws \in BOOLEAN :
          IF ~cacheStore \/ throws
          THEN /\ req' = [req EXCEPT ![r].pc = "summGet"]
               /\ writesOk' = FALSE
               /\ UNCHANGED <<customData, eff>>
          ELSE /\ customData' = LoaderCustomSet(customData,
                                    CacheDoc(req[r].userId,
                                             GenerateCacheKey(req[r].userId, req[r].userQuery,
                                                              [name |-> <<>>, children |-> <<>>]),
                                             req[r].botResponseJson))
               /\ eff' = [eff EXCEPT ![r].cacheWrites = @ + 1]
               /\ req' = [req EXCEPT ![r].pc = "summGet", ![r].cacheSet = TRUE]
               /\ UNCHANGED writesOk
    /\ UNCHANGED <<services, conversations, sent, snap, lastExchange, exchanges, lastSummary, started>>

\* SetCachedResult without the catch of cacheService.js:60-63: the store error
\* reaches the catch of part_007:145.
SetCachedResult_Rethrows(r) ==
    /\ req[r].pc = "setCache"
    /\ \E throws \in BOOLEAN :
          IF ~cacheStore
          THEN /\ req' = [req EXCEPT ![r].pc = "summGet"]
               /\ writesOk' = FALSE
               /\ UNCHANGED <<customData, eff, sent>>
          ELSE IF throws
          THEN /\ Respond(r, req[r], 500, ErrorBody(<<"store error">>), "500")
               /\ writesOk' = FALSE
               /\ UNCHANGED <<customData, eff>>
          ELSE /\ customData' = LoaderCustomSet(customData,
                                    CacheDoc(req[r].userId, CacheKeyOf(req[r]), req[r].botResponseJson))
               /\ eff' = [eff EXCEPT ![r].cacheWrites = @ + 1]
               /\ req' = [req EXCEPT ![r].pc = "summGet", ![r].cacheSet = TRUE]
               /\ UNCHANGED <<writesOk, sent>>
    /\ UNCHANGED <<services, conversations, snap, lastExchange, exchanges, lastSummary, started>>

\* cacheService.js:44-64, called at part_007:136
SetCachedResult(r) ==
    /\ req[r].pc = "setCache"
    /\ \E throws \in BOOLEAN :
          IF ~cacheStore \/ throws
          THEN /\ req' = [req EXCEPT ![r].pc = "summGet"]
               /\ writesOk' = FALSE
               /\ UNCHANGED <<customData, eff>>
          ELSE /\ customData' = LoaderCustomSet(customData,
                                    CacheDoc(req[r].userId, CacheKeyOf(req[r]), req[r].botResponseJson))
               /\ eff' = [eff EXCEPT ![r].cacheWrites = @ + 1]
               /\ req' = [req EXCEPT ![r].pc = "summGet", ![r].cacheSet = TRUE]
               /\ UNCHANGED writesOk
    /\ UNCHANGED <<services, conversations, sent, snap, lastExchange, exchanges, lastSummary, started>>

\* SummaryDue without the modulo: true from the tenth entry on.
SummaryDue_FromTenth(historyEntries) == Len(historyEntries) >= SummaryEvery

\* memoryService.js:113
SummaryDue(historyEntries) ==
    Len(historyEntries) > 0 /\ Len(historyEntries) % SummaryEvery = 0

\* memoryService.js:103-115, called at part_007:139: the guard, getConversation
\* and the length test.
SummarizeCheck(r) ==
    /\ req[r].pc = "summGet"
    /\ \E throws \in BOOLEAN :
          LET historyEntries ==
                  IF HasConversation(conversations, req[r].userId)
                  THEN conversations[req[r].userId] ELSE <<>>
              l == [req[r] EXCEPT !.summaryRead = (memoryStore /\ ~throws)]
          IN  IF memoryStore /\ ~throws /\ SummaryDue(historyEntries)
              THEN /\ req' = [req EXCEPT ![r] = [l EXCEPT !.pc = "summarize",
                                                           !.summarizedLength = Len(historyEntries)]]
                   /\ UNCHANGED sent
              ELSE Respond(r, l, 200, l.botResponseJson, l.path)
    /\ UNCHANGED <<services, store, eff, snap, history, started>>

SummaryTexts ==
    { Str(<<"S1">>), Str(<<"W">>), Str(<<>>),
      Str(<<"Error", "performing summarization.">>),
      Str(<<"Could not summarize", "due to configuration issue.">>) }

\* SummaryUsable accepting every non-empty text.
SummaryUsable_NonEmpty(summary) == Truthy(summary)

\* memoryService.js:119
SummaryUsable(summary) ==
    /\ Truthy(summary)
    /\ summary.text[1] \notin {"Error", "Could not summarize"}

\* ragService.summarizeConversation (part_009:80-97) called at
\* memoryService.js:117, then the test of memoryService.js:119.
Summarize(r) ==
    /\ req[r].pc = "summarize"
    /\ eff' = [eff EXCEPT ![r].summaries = @ + 1]
    /\ \/ \E summary \in SummaryTexts :
             IF SummaryUsable(summary)
             THEN /\ req' = [req EXCEPT ![r].pc = "memWrite", ![r].summary = summary]
                  /\ UNCHANGED sent
             ELSE Respond(r, [req[r] EXCEPT !.summary = summary], 200,
                          req[r].botResponseJson, req[r].path)
       \* summarizeConversation throws: the catch of memoryService.js:137-140
       \/ Respond(r, [req[r] EXCEPT !.summarizeThrew = TRUE], 200,
                  req[r].botResponseJson, req[r].path)
    /\ UNCHANGED <<services, store, snap, history, started>>

\* memoryService.js:120-129, then part_007:143
StoreSummary(r) ==
    /\ req[r].pc = "memWrite"
    /\ \E throws \in BOOLEAN :
          /\ IF throws
             THEN /\ writesOk' = FALSE
                  /\ UNCHANGED <<customData, eff, lastSummary>>
             ELSE /\ customData' = LoaderCustomSet(customData,
                                       MemoryDoc(req[r].userId, MemoryKey(req[r].userId),
                                                 req[r].summary.text))
                  /\ eff' = [eff EXCEPT ![r].memWrites = @ + 1]
                  /\ lastSummary' = [lastSummary EXCEPT ![req[r].userId] = req[r].summary.text]
                  /\ UNCHANGED writesOk
          /\ Respond(r, [req[r] EXCEPT !.summaryStored = ~throws], 200,
                     req[r].botResponseJson, req[r].path)
    /\ UNCHANGED <<services, conversations, snap, lastExchange, exchanges, started>>

\* ------------------------------------------------------------- specification
\* Requests handled one after another: a single invocation is in flight.
Next ==
    \/ InitDatabase
    \/ RagInitialize
    \/ ServicesInitialize
    \/ CloseDatabase
    \/ \E r \in SeqReqs, b \in RequestBodies : Start(r, b)
    \/ \E r \in SeqReqs : CacheRead(r)
    \/ \E r \in SeqReqs : MemRead(r)
    \/ \E r \in SeqReqs : HistRead(r)
    \/ \E r \in SeqReqs : IssueQuery(r)
    \/ \E r \in SeqReqs : Tick(r)
    \/ \E r \in SeqReqs : LlmQuery(r)
    \/ \E r \in SeqReqs : LateResult(r)
    \/ \E r \in SeqReqs : Enrich(r)
    \/ \E r \in SeqReqs : AddUserEntry(r)
    \/ \E r \in SeqReqs : AddBotEntry(r)
    \/ \E r \in SeqReqs : SetCachedResult(r)
    \/ \E r \in SeqReqs : SummarizeCheck(r)
    \/ \E r \in SeqReqs : Summarize(r)
    \/ \E r \in SeqReqs : StoreSummary(r)

Spec == Init /\ [][Next]_vars

\* The requests of the timed specification: no user profile, and an LLM that
\* answers with plain or prose-wrapped JSON.
TimedScope ==
    \A r \in Reqs :
        /\ req[r].userName = <<>>
        /\ req[r].children = <<>>
        /\ req[r].llmOutputString \in {Str(<<>>), Str(<<"J1">>), Str(<<"X", "J1">>)}

TimedNext ==
    \/ InitDatabase
    \/ RagInitialize
    \/ ServicesInitialize
    \/ CloseDatabase
    \/ \E r \in SeqReqs, b \in RequestBodies : Start(r, b) /\ TimedScope'
    \/ \E r \in SeqReqs : CacheRead(r)
    \/ \E r \in SeqReqs : MemRead(r)
    \/ \E r \in SeqReqs : HistRead(r)
    \/ \E r \in SeqReqs : IssueQuery(r)
    \/ \E r \in SeqReqs : Tick(r)
    \/ \E r \in SeqReqs : LlmQuery(r) /\ TimedScope'
    \/ \E r \in SeqReqs : LateResult(r)
    \/ \E r \in SeqReqs : Enrich(r)
    \/ \E r \in SeqReqs : AddUserEntry(r)
    \/ \E r \in SeqReqs : AddBotEntry(r)
    \/ \E r \in SeqReqs : SetCachedResult(r)
    \/ \E r \in SeqReqs : SummarizeCheck(r)
    \/ \E r \in SeqReqs : Summarize(r)
    \/ \E r \in SeqReqs : StoreSummary(r)

\* The continuation of an invocation after each of its awaits: a store call,
\* the catalog query, the summarization or the race of part_007:90 has settled.
Continue(r) ==
    \/ CacheRead(r)
    \/ MemRead(r)
    \/ HistRead(r)
    \/ IssueQuery(r)
    \/ LlmQuery(r) /\ TimedScope'
    \/ Enrich(r)
    \/ AddUserEntry(r)
    \/ AddBotEntry(r)
    \/ SetCachedResult(r)
    \/ SummarizeCheck(r)
    \/ Summarize(r)
    \/ StoreSummary(r)

\* Every call the handler awaits returns or throws, the timer of part_007:89
\* fires when it is due, and the event loop then runs the continuation: an
\* invocation that can go on does go on.
FairSpec == Init /\ [][TimedNext]_vars /\ \A r \in SeqReqs : WF_vars(Continue(r))

\* Two invocations in flight at once.  Express runs a handler up to its next
\* await and then whatever other continuation is ready (no locking or
\* queueing in the repository), so the steps of two requests interleave at
\* their awaits.  The server is running: initialized, listening (part_008:60)
\* and not shutting down.  The requests are confined to user u1 without
\* profile, to LLM queries that settle before the timer with one of three
\* outputs, and to store writes that succeed.
ConcPreloadPairs == {SummaryEvery \div 2 - 2, SummaryEvery \div 2 - 1}

ConcInit == InitWith(ConcPreloadPairs)

ConcScope ==
    /\ writesOk
    /\ \A r \in Reqs :
          /\ req[r].userId \in {<<>>, U1}
          /\ req[r].userName = <<>>
          /\ req[r].children = <<>>
          /\ req[r].llmOutputString \in {Str(<<>>), Str(<<"J1">>), Str(<<"W", "J2", "NL">>)}

ConcNext ==
    \/ InitDatabase
    \/ RagInitialize
    \/ ServicesInitialize
    \/ \E r \in Reqs, b \in RequestBodies : cacheStore /\ Start(r, b) /\ ConcScope'
    \/ \E r \in Reqs : CacheRead(r)
    \/ \E r \in Reqs : MemRead(r)
    \/ \E r \in Reqs : HistRead(r) /\ ConcScope'
    \/ \E r \in Reqs : IssueQuery(r)
    \/ \E r \in Reqs : LlmQuery(r) /\ ConcScope'
    \/ \E r \in Reqs : Enrich(r)
    \/ \E r \in Reqs : AddUserEntry(r) /\ ConcScope'
    \/ \E r \in Reqs : AddBotEntry(r) /\ ConcScope'
    \/ \E r \in Reqs : SetCachedResult(r) /\ ConcScope'
    \/ \E r \in Reqs : SummarizeCheck(r)
    \/ \E r \in Reqs : Summarize(r)
    \/ \E r \in Reqs : StoreSummary(r) /\ ConcScope'

ConcSpec == ConcInit /\ [][ConcNext]_vars

\* ===================================================================== claims
\* The cache key the claims speak of: cache:<userId>:<query>:<JSON of {name, children}>.
ExpectedCacheKey(l) ==
    <<"cache", ":">> \o l.userId \o <<":">> \o l.userQuery \o <<":">>
        \o Stringify([name |-> l.userName, children |-> l.children])

StoreUnchangedSince(r) ==
    customData = snap[r].customData /\ conversations = snap[r].conversations

AnsweredOnMiss(r) ==
    /\ req[r].pc = "done"
    /\ req[r].path \in {"parsed", "fallback"}
    /\ Len(sent[r]) = 1
    /\ sent[r][1].status = 200

CachedUnderKey(r) ==
    \E d \in customData :
        /\ d.key = ExpectedCacheKey(req[r])
        /\ d.loaderId = req[r].userId
        /\ d.hasData
        /\ d.data = sent[r][1].body

\* The answer is a non-blank string without the fallback phrase.
ValidAnswer(body) ==
    /\ body.answer.isString
    /\ \E i \in 1..Len(body.answer.text) : body.answer.text[i] \notin {"W", "NL"}
    /\ \A i \in 1..Len(body.answer.text) : body.answer.text[i] # TroublePhrase

HistorySectionPresent(prompt) == IndexFrom(prompt, HistoryHeader, 1) # 0
HistorySectionText(prompt) ==
    LET i == IndexFrom(prompt, HistoryHeader, 1)
    IN  SubSeq(prompt, i + 2, IndexFrom(prompt, "NLNL", i) - 1)

\* text holds line as one whole line followed by the line next.
HoldsLinePair(text, line, next) ==
    LET both == line \o <<"NL">> \o next
    IN  \E k \in 0..(Len(text) - Len(both)) :
            /\ SubSeq(text, k + 1, k + Len(both)) = both
            /\ (k = 0 \/ text[k] = "NL")
            /\ (k + Len(both) = Len(text) \/ text[k + Len(both) + 1] = "NL")

ExchangeInPrompt(r) ==
    LET x == lastExchange[req[r].userId]
    IN  /\ HistorySectionPresent(req[r].promptForRAG)
        /\ HoldsLinePair(HistorySectionText(req[r].promptForRAG),
                         <<"User", ": ">> \o x.query, <<"Bot", ": ">> \o x.answer)

\* A prompt has been built and not yet sent: the request missed the cache.
PromptBuilt(r) == req[r].pc = "llm"

\* C3 as stated: the exchange stored last for a user is in the history section
\* of the prompt of the user's next cache-missing request.
C3_ExchangeAlwaysInNextPrompt ==
    \A r \in Reqs :
        PromptBuilt(r) /\ lastExchange[req[r].userId].set => ExchangeInPrompt(r)

\* C3: after a valid exchange of a user has been stored, the history section of
\* the prompt of the user's next cache-missing request holds the line
\* 'User: <query>' immediately followed by 'Bot: <answer>', provided that
\* request's read of the conversation succeeds.
C3_ExchangeInNextPrompt ==
    \A r \in Reqs :
        PromptBuilt(r) /\ lastExchange[req[r].userId].set /\ req[r].historyRead
            => ExchangeInPrompt(r)

C3_Witness ==
    \E r \in Reqs :
        /\ PromptBuilt(r)
        /\ lastExchange[req[r].userId].set
        /\ req[r].historyRead
        /\ started = 2
        /\ ExchangeInPrompt(r)

\* ---- windowing
StoredEntries(id) == IF conversations[id] = NoConversation THEN <<>> ELSE conversations[id]

RECURSIVE LinesFrom(_, _)
LinesFrom(entries, from) ==
    IF from > Len(entries) THEN <<>>
    ELSE <<entries[from].role, ": ">> \o entries[from].content
         \o (IF from < Len(entries) THEN <<"NL">> ELSE <<>>)
         \o LinesFrom(entries, from + 1)

\* The last min(10, n) entries, oldest first, one per line.
LastTenLines(entries) ==
    LET n == Len(entries)
        m == IF n < 10 THEN n ELSE 10
    IN  LinesFrom(entries, n - m + 1)

WindowOfStored(r) ==
    LET entries == StoredEntries(req[r].userId)
    IN  IF entries = <<>>
        THEN ~HistorySectionPresent(req[r].promptForRAG)
        ELSE /\ HistorySectionPresent(req[r].promptForRAG)
             /\ HistorySectionText(req[r].promptForRAG) = LastTenLines(entries)

IsPrefix(s, t) == Len(s) <= Len(t) /\ SubSeq(t, 1, Len(s)) = s

\* No entry stored when the request began has been removed or changed.
NothingTruncated(r) ==
    \A id \in UserIds :
        snap[r].conversations[id] # NoConversation =>
            /\ conversations[id] # NoConversation
            /\ IsPrefix(snap[r].conversations[id], conversations[id])

\* C4 as stated: the history section of every prompt is the last min(10, n)
\* of the n stored entries, and is omitted only when n = 0.
C4_WindowAlways ==
    \A r \in Reqs :
        /\ PromptBuilt(r) => WindowOfStored(r)
        /\ req[r].pc # "idle" => NothingTruncated(r)

\* C4: when the read of the conversation succeeds, the history section of the
\* prompt is the last min(10, n) of the n stored entries in stored order, each
\* as '<role>: <content>', and is omitted when n = 0; when the read fails the
\* section is omitted; the stored conversation is never truncated.
C4_WindowWhenRead ==
    \A r \in Reqs :
        /\ PromptBuilt(r) /\ req[r].historyRead => WindowOfStored(r)
        /\ PromptBuilt(r) /\ ~req[r].historyRead => ~HistorySectionPresent(req[r].promptForRAG)
        /\ req[r].pc # "idle" => NothingTruncated(r)

C4_Witness ==
    \E r \in Reqs :
        /\ PromptBuilt(r)
        /\ req[r].historyRead
        /\ Len(StoredEntries(req[r].userId)) > 10
        /\ HistorySectionText(req[r].promptForRAG) = LastTenLines(StoredEntries(req[r].userId))

\* ---- periodic summarization
Finished(r) == req[r].pc = "done"
StoredExchange(r) == eff[r].entries = 2
InvokedSummarize(r) == eff[r].summaries >= 1

PositiveMultipleOfTen(n) == n > 0 /\ n % 10 = 0

\* What the claim says of a finished request of user id.
SummarizedExactlyWhenDue(r) ==
    LET id == req[r].userId
    IN  /\ Len(StoredEntries(id)) = 2 * exchanges[id]
        /\ InvokedSummarize(r)
              <=> (StoredExchange(r) /\ PositiveMultipleOfTen(Len(StoredEntries(id))))
        /\ InvokedSummarize(r) <=> (StoredExchange(r) /\ exchanges[id] % 5 = 0)
        /\ eff[r].summaries <= 1

NeverOnHitOrFallback(r) ==
    req[r].path \in {"hit", "fallback", "400", "503", "500"} => eff[r].summaries = 0

\* C5 as stated: with all store writes succeeding, a request invokes
\* summarizeConversation exactly when it stored a valid exchange and the
\* conversation then has a positive multiple of 10 entries.
C5_SummarizeIffDue ==
    \A r \in Reqs :
        /\ Finished(r) /\ writesOk => SummarizedExactlyWhenDue(r)
        /\ NeverOnHitOrFallback(r)

\* C5: with all store writes succeeding and the conversation read by
\* summarizeAndStoreMemory succeeding, a request invokes summarizeConversation
\* exactly when it stored a valid exchange and the user's conversation then has
\* a positive multiple of 10 entries, that is on every 5th stored exchange;
\* cache hits, fallback answers and error answers never invoke it.
C5_SummarizeIffDueAndRead ==
    \A r \in Reqs :
        /\ Finished(r) /\ writesOk /\ (StoredExchange(r) => req[r].summaryRead)
              => SummarizedExactlyWhenDue(r)
        /\ NeverOnHitOrFallback(r)

C5_Witness ==
    \E r \in Reqs :
        /\ Finished(r) /\ writesOk /\ req[r].summaryRead
        /\ StoredExchange(r)
        /\ InvokedSummarize(r)
        /\ exchanges[req[r].userId] = 10

\* ---- long-term memory
MemorySectionPresent(prompt) == IndexFrom(prompt, MemoryHeader, 1) # 0
MemorySectionUser(prompt, id) ==
    LET i == IndexFrom(prompt, MemoryHeader, 1) IN SubSeq(prompt, i + 1, i + Len(id) + 1)
MemorySectionText(prompt, id) ==
    LET i == IndexFrom(prompt, MemoryHeader, 1)
    IN  SubSeq(prompt, i + Len(id) + 3, IndexFrom(prompt, "NLNL", i) - 1)

Blank(text) == \A i \in 1..Len(text) : text[i] \in {"W", "NL"}

\* What holds of the memory section whatever the lookup yields: on a cache
\* miss the prompt has the section 'Relevant past information
\* for <userId>:' exactly when the read of memory:<userId>:last_summary yields
\* the stored summary and its text is not blank; the section then holds exactly
\* the text of the summary stored last for that user.  It is omitted when no
\* summary was stored, when the text is empty or whitespace, and when the read
\* yields nothing.
C6_MemoryInPrompt ==
    \A r \in Reqs :
        PromptBuilt(r) =>
            LET id == req[r].userId
                read == req[r].memoryRead
                prompt == req[r].promptForRAG
            IN  /\ read.found => read.text = lastSummary[id] /\ lastSummary[id] # <<>>
                /\ MemorySectionPresent(prompt) <=> (read.found /\ ~Blank(lastSummary[id]))
                /\ MemorySectionPresent(prompt) =>
                      /\ MemorySectionUser(prompt, id) = id \o <<":">>
                      /\ MemorySectionText(prompt, id) = lastSummary[id]

C6_Witness ==
    \E r \in Reqs :
        /\ PromptBuilt(r)
        /\ started = 2
        /\ lastSummary[req[r].userId] = <<"S1">>
        /\ MemorySectionPresent(req[r].promptForRAG)
        /\ MemorySectionText(req[r].promptForRAG, req[r].userId) = <<"S1">>

\* ---- the LLM output as the claims read it
FirstFence(s) == IndexFrom(s, "F", 1)
SecondFence(s) == IF FirstFence(s) = 0 THEN 0 ELSE IndexFrom(s, "F", FirstFence(s) + 1)
HasFencedBlock(s) == SecondFence(s) # 0

\* What stands between the first two fences, without the language tag.
BlockContents(s) ==
    LET inner == SubSeq(s, FirstFence(s) + 1, SecondFence(s) - 1)
    IN  IF inner # <<>> /\ inner[1] = "L" THEN Tail(inner) ELSE inner

RepairedText(s) == IF HasFencedBlock(s) THEN Trim(BlockContents(s)) ELSE s

ParsesAsAnswer(out) ==
    /\ out.isString
    /\ out.text # <<>>
    /\ JsonParses(RepairedText(out.text))
    /\ JsonParse(RepairedText(out.text)).answer.isString
    /\ JsonParse(RepairedText(out.text)).relatedProducts.isArray

\* The SKUs the LLM listed, each as a string.
ListedSkus(out) ==
    LET items == JsonParse(RepairedText(out.text)).relatedProducts.items
    IN  { items[i].text : i \in 1..Len(items) }

ListedProducts(out) == { p \in Catalog : p.sku \in ListedSkus(out) }

AnsweredParsed(r) == Finished(r) /\ req[r].path = "parsed" /\ Len(sent[r]) = 1

\* C7 as stated: the relatedProducts of every non-fallback answer are exactly
\* the catalog records of the SKUs the LLM listed.
C7_EnrichedAlways ==
    \A r \in Reqs :
        AnsweredParsed(r) =>
            sent[r][1].body.relatedProducts.items = ListedProducts(req[r].llmOutputString)

\* C7: when the catalog lookup succeeds, the relatedProducts of a non-fallback
\* answer are exactly the catalog records whose sku is among the SKUs the LLM
\* listed, each coerced to a string; when the lookup fails relatedProducts is
\* empty.  No product outside the listed SKUs appears in either case.
C7_EnrichedWhenCatalogRead ==
    \A r \in Reqs :
        AnsweredParsed(r) =>
            LET related == sent[r][1].body.relatedProducts
            IN  /\ related.isArray
                /\ related.items = IF req[r].catalogRead
                                   THEN ListedProducts(req[r].llmOutputString)
                                   ELSE {}
                /\ related.items \subseteq ListedProducts(req[r].llmOutputString)

C7_Witness ==
    \E r \in Reqs :
        /\ AnsweredParsed(r)
        /\ req[r].catalogRead
        /\ ListedSkus(req[r].llmOutputString) = {<<"s1">>, <<"s3">>}
        /\ \E p \in sent[r][1].body.relatedProducts.items : p.sku = <<"s1">>

\* ---- parsing and repair
LlmReturned(r) == req[r].path \in {"parsed", "fallback"}

RawOutput(out) == IF out.text # <<>> THEN out.text ELSE <<"Not available">>

IsFallbackBody(body, out) ==
    /\ body.relatedProducts = Arr({})
    /\ body.answer.isString
    /\ Len(body.answer.text) >= 2
    /\ body.answer.text[1] = TroublePhrase
    /\ SubSeq(body.answer.text, 3, Len(body.answer.text)) = RawOutput(out)

HasShape(body) == body.answer.isString /\ body.relatedProducts.isArray

\* C9: every body handleQuery has sent, on every path, has a string answer and
\* an array relatedProducts, and so has every value it has written to the cache.
C9_ResponseShape ==
    /\ \A r \in Reqs : \A i \in 1..Len(sent[r]) : HasShape(sent[r][i].body)
    /\ \A d \in customData : d.hasData => HasShape(d.data)

\* A cache hit on an entry written by an earlier request that parsed products.
C9_Witness ==
    \E r \in Reqs :
        /\ Finished(r)
        /\ req[r].path = "hit"
        /\ sent[r][1].body.relatedProducts.items # {}
        /\ \E d \in customData : d.hasData /\ d.data = sent[r][1].body

\* ---- missing query
QueryGiven(b) == b.query.text # <<>> \/ b.question.text # <<>>

QueryRequired == [answer |-> Str(<<"Query is required.">>), relatedProducts |-> Arr({}),
                  details |-> <<>>]

RejectedCleanly(r) ==
    /\ Finished(r)
    /\ sent[r] = <<[status |-> 400, body |-> QueryRequired]>>
    /\ eff[r] = NoEffects
    /\ StoreUnchangedSince(r)

\* C10: a request is answered 400 exactly when neither body.query nor
\* body.question is a non-empty value; the answer is {answer: 'Query is
\* required.', relatedProducts: []}, it is the handler's first step, and no
\* cache read, conversation or memory access or LLM call has happened and the
\* store is as it was.
C10_MissingQueryRejected ==
    /\ [](\A r \in Reqs : req[r].path = "400" => RejectedCleanly(r))
    /\ [][started' # started =>
             \A r \in SeqReqs, b \in RequestBodies :
                 Start(r, b) =>
                     /\ req'[r].path = "400" <=> ~QueryGiven(b)
                     /\ ~QueryGiven(b) => /\ customData' = customData
                                          /\ conversations' = conversations
                                          /\ req'[r].pc = "done"]_vars

C10_Witness ==
    \E r \in Reqs :
        /\ req[r].path = "400"
        /\ RejectedCleanly(r)
        /\ started = 2
        /\ customData # {}

\* ---- store read protocol
\* C11: every loaderCustomGet made for a cached response or a memory summary
\* is given, with the key, the loaderId under which the item was written: the
\* userId.
C11_ReadsGiveLoaderId ==
    \A r \in Reqs :
        /\ req[r].cacheGetLoaderId # <<>> => req[r].cacheGetLoaderId = req[r].userId
        /\ req[r].memoryGetLoaderId # <<>> => req[r].memoryGetLoaderId = req[r].userId

\* C6: on a cache miss, whenever a non-blank summary is
\* stored for the user and the read of memory:<userId>:last_summary is made
\* and does not throw, the prompt has the memory section with that summary.
C6_StoredSummaryInPrompt ==
    \A r \in Reqs :
        /\ PromptBuilt(r)
        /\ req[r].memoryGetLoaderId # <<>>
        /\ ~req[r].memoryReadThrew
        /\ ~Blank(lastSummary[req[r].userId])
        => /\ MemorySectionPresent(req[r].promptForRAG)
           /\ MemorySectionText(req[r].promptForRAG, req[r].userId) = lastSummary[req[r].userId]

\* ---- updates only for valid answers
\* A finished request whose 200 answer is the fallback or is blank.
AnsweredInvalid(r) == AnsweredOnMiss(r) /\ ~ValidAnswer(sent[r][1].body)

NothingSaved(r) ==
    /\ eff[r].entries = 0
    /\ eff[r].cacheWrites = 0
    /\ eff[r].summaries = 0
    /\ eff[r].memWrites = 0

\* The conversations are as they were, but for the empty conversation that
\* the history read creates for a user who had none.
ConversationsKeptOrCreated(r) ==
    \A id \in UserIds :
        \/ conversations[id] = snap[r].conversations[id]
        \/ /\ id = req[r].userId
           /\ snap[r].conversations[id] = NoConversation
           /\ conversations[id] = <<>>

\* C12 as stated: a request answered with the fallback or a blank answer
\* saves nothing and leaves the conversation store, the cache and the memory
\* exactly as they were.
C12_InvalidLeavesStoreSame ==
    \A r \in Reqs : AnsweredInvalid(r) => NothingSaved(r) /\ StoreUnchangedSince(r)

\* C12: a request answered with the fallback or a blank answer adds no
\* conversation entry, writes no cache entry and no summary and triggers no
\* summarization; the cache and the memory are as before, and so are the
\* conversations except that the user's empty conversation may have been
\* created by the history read.
C12_InvalidSavesNothing ==
    \A r \in Reqs :
        AnsweredInvalid(r) =>
            /\ NothingSaved(r)
            /\ customData = snap[r].customData
            /\ ConversationsKeptOrCreated(r)

C12_Witness ==
    \E r \in Reqs :
        /\ AnsweredInvalid(r)
        /\ req[r].path = "fallback"
        /\ started = 2
        /\ customData # {}
        /\ Len(StoredEntries(req[r].userId)) > 0

\* ---- failed summarization
\* The summaries stored for a user: the documents under memory:<id>:last_summary.
SummariesOf(docs, id) ==
    { d \in docs : d.key = <<"memory", ":">> \o id \o <<":", "last_summary">> }

\* The result of summarizeConversation is one the claim calls failed.
FailedSummary(r) ==
    \/ req[r].summarizeThrew
    \/ req[r].summary.text = <<>>
    \/ req[r].summary.text[1] \in {"Error", "Could not summarize"}

\* C13: as long as summarizeAndStoreMemory has not returned true the stored
\* summaries are as they were when the request began; it does not return true
\* when summarizeConversation returned an empty string or one starting with
\* 'Error' or 'Could not summarize', or threw, or a store call threw; when it
\* returns true the user's one stored summary is the new one; no user ever
\* has more than one.
C13_FailedSummaryKeepsStored ==
    /\ \A r \in Reqs :
          /\ req[r].pc # "idle" /\ ~req[r].summaryStored =>
                \A id \in UserIds :
                    SummariesOf(customData, id) = SummariesOf(snap[r].customData, id)
          /\ InvokedSummarize(r) /\ Finished(r) /\ FailedSummary(r) => ~req[r].summaryStored
          /\ ~req[r].summaryRead => ~req[r].summaryStored
          /\ req[r].summaryStored =>
                /\ ~FailedSummary(r)
                /\ \A d \in SummariesOf(customData, req[r].userId) :
                       d.text = req[r].summary.text /\ d.loaderId = req[r].userId
                /\ SummariesOf(customData, req[r].userId) # {}
    /\ \A id \in UserIds : Cardinality(SummariesOf(customData, id)) <= 1

C13_Witness ==
    \E r \in Reqs :
        /\ Finished(r)
        /\ InvokedSummarize(r)
        /\ req[r].summary.text # <<>>
        /\ req[r].summary.text[1] = "Error"
        /\ \E d \in SummariesOf(customData, req[r].userId) : d.text = Summary0

\* ---- LLM timeout
TimeoutBody ==
    [answer |-> Str(<<"Error processing your question">>), relatedProducts |-> Arr({}),
     details |-> <<"Request timed out after 15 seconds">>]

QueryOverdue(r) == req[r].pc = "wait" /\ req[r].waited = TimeoutSeconds

TimedOutCleanly(r) ==
    /\ Finished(r)
    /\ sent[r] = <<[status |-> 500, body |-> TimeoutBody]>>
    /\ NothingSaved(r)
    /\ customData = snap[r].customData
    /\ ConversationsKeptOrCreated(r)

\* C14: a request whose LLM query is still pending 15 seconds after it was
\* issued is answered 500 with details 'Request timed out after 15 seconds',
\* and in no other way; no request times out earlier; and a timed-out request
\* has written no conversation entry, cache entry or summary, also after its
\* late LLM result has arrived.
C14_TimeoutAnswers500 ==
    /\ \A r \in SeqReqs : QueryOverdue(r) ~> req[r].timedOut
    /\ [](\A r \in Reqs : req[r].timedOut => TimedOutCleanly(r))
    /\ [][\A r \in Reqs :
             /\ QueryOverdue(r) /\ req'[r].pc # "wait" => req'[r].timedOut
             /\ req'[r].timedOut /\ ~req[r].timedOut => QueryOverdue(r)]_vars

C14_Witness ==
    \E r \in Reqs :
        /\ req[r].timedOut
        /\ req[r].lateResult = "arrived"
        /\ TimedOutCleanly(r)
        /\ Len(StoredEntries(req[r].userId)) > 0

\* ---- cache failures
\* The request has been through setCachedResult (part_007:136).
PastCacheWrite(r) ==
    \/ req[r].pc \in {"summGet", "summarize", "memWrite"}
    \/ Finished(r) /\ req[r].path = "parsed" /\ IsValidResponse(req[r].botResponseJson)

CacheItems(docs) == { d \in docs : d.hasData }

\* The handler goes on from a failed cache read to the memory read, the
\* history read and the LLM query.
ProceedsToLlm(r) ==
    /\ req[r].pc = "memRead" => req'[r].pc = "histRead"
    /\ req[r].pc = "histRead" => req'[r].pc = "llm"
    /\ req[r].pc = "llm" => req'[r].pc = "wait" /\ eff'[r].llm = 1
    /\ sent'[r] = <<>>

\* C15: a cache read that fails (the store throws, or the service has no
\* store) is a miss: nothing is sent and the handler goes on to the memory
\* read, the history read and the LLM query.  A cache write that fails writes
\* no cache item and returns to the handler, which goes on to the
\* summarization step and answers 200, once, with the answer the LLM gave.
C15_CacheFailuresNotFatal ==
    /\ [](\A r \in Reqs :
            /\ req[r].cacheReadFailed =>
                  /\ req[r].pc \in {"memRead", "histRead", "llm"}
                  /\ req[r].path = "none"
                  /\ sent[r] = <<>>
                  /\ eff[r] = NoEffects
            /\ PastCacheWrite(r) /\ ~req[r].cacheSet =>
                  /\ eff[r].cacheWrites = 0
                  /\ CacheItems(customData) = CacheItems(snap[r].customData)
                  /\ Finished(r) =>
                        /\ sent[r] = <<Response(200, req[r].botResponseJson)>>
                        /\ req[r].botResponseJson.answer =
                              JsonParse(RepairedText(req[r].llmOutputString.text)).answer)
    /\ [][\A r \in Reqs :
            /\ req[r].cacheReadFailed /\ req'[r] # req[r] => ProceedsToLlm(r)
            /\ req[r].pc = "cacheRead" /\ req'[r].cacheReadFailed => req'[r].pc = "memRead"
            /\ req[r].pc = "setCache" /\ req'[r] # req[r] =>
                  req'[r].pc = "summGet" /\ sent'[r] = sent[r]]_vars

\* A request whose cache write failed although the service had its store, and
\* which has stored the exchange and answered 200.
C15_Witness ==
    \E r \in Reqs :
        /\ Finished(r)
        /\ PastCacheWrite(r)
        /\ ~req[r].cacheSet
        /\ cacheStore
        /\ req[r].entriesAdded
        /\ sent[r] = <<Response(200, Body(Str(AnswerA1), Arr({}), <<>>))>>

\* ---- catalog failures
\* The answer and the SKU list parsed from the LLM output of the request.
ParsedAnswer(r) == JsonParse(RepairedText(req[r].llmOutputString.text)).answer

\* What the call of getProductsBySKUs at part_007:116 gives the handler in a
\* step from the enrichment: the handler goes on with a parsed answer whose
\* relatedProducts is an array, empty when the database is closed or no SKU is
\* listed, and no error response is sent.
EnrichmentReturns(r) ==
    /\ req'[r].path = "parsed"
    /\ req'[r].pc \in {"addUser", "done"}
    /\ req'[r].botResponseJson.answer = ParsedAnswer(r)
    /\ req'[r].botResponseJson.relatedProducts.isArray
    /\ ~db \/ req[r].skus.items = <<>> =>
          req'[r].botResponseJson.relatedProducts = Arr({})
    /\ req'[r].pc = "done" => sent'[r] = <<Response(200, req'[r].botResponseJson)>>

\* C16: getProductsBySKUs gives the handler an array in every case, the empty
\* one when the database is not open, when no SKU is listed and when the
\* catalog query fails; a request whose catalog lookup failed is answered 200,
\* once, with the LLM's answer and relatedProducts = [].
C16_CatalogFailureNotFatal ==
    /\ [](\A r \in Reqs :
            AnsweredParsed(r) /\ ~req[r].catalogRead =>
                sent[r] = <<Response(200, Body(ParsedAnswer(r), Arr({}), <<>>))>>)
    /\ [][\A r \in Reqs :
            req[r].pc = "enrich" /\ req'[r] # req[r] => EnrichmentReturns(r)]_vars

\* The catalog query failed on an open database for a request that listed
\* SKUs, and the request has stored the exchange and answered.
C16_Witness ==
    \E r \in Reqs :
        /\ AnsweredParsed(r)
        /\ db
        /\ ~req[r].catalogRead
        /\ ListedSkus(req[r].llmOutputString) # {}
        /\ req[r].entriesAdded
        /\ sent[r][1].body = Body(Str(AnswerA1), Arr({}), <<>>)

\* ---- one response per request
\* The status of the response each path of handleQuery sends.
StatusOf(path) ==
    IF path = "400" THEN 400
    ELSE IF path = "503" THEN 503
    ELSE IF path = "500" THEN 500
    ELSE 200

InFlight(r) == req[r].pc \notin {"idle", "done"}

BothFinished == \A r \in Reqs : Finished(r)

\* The Bot entry b answers the User entry u: the two are an exchange stored
\* before the requests began, or the query and the answer of one request.
Answers(u, b) ==
    \/ \E n \in 1..MaxPrePairs :
          /\ u.content = <<"old question", NumeralOf(n)>>
          /\ b.content = <<"old answer", NumeralOf(n)>>
    \/ \E r \in Reqs :
          /\ StoredExchange(r)
          /\ u.content = req[r].userQuery
          /\ b.content = req[r].botResponseJson.answer.text

ConsecutivePairs(entries) ==
    /\ Len(entries) % 2 = 0
    /\ \A i \in 1..Len(entries) :
          i % 2 = 1 =>
              /\ entries[i].role = "User"
              /\ entries[i + 1].role = "Bot"
              /\ Answers(entries[i], entries[i + 1])

\* C18: when two requests of one user have been handled with their awaits
\* interleaved and no store call has failed, the stored conversation consists
\* of consecutive (User, Bot) pairs, each Bot entry answering the User entry
\* before it.
C18_PairsUnderConcurrency ==
    BothFinished => \A id \in UserIds : ConsecutivePairs(StoredEntries(id))

\* ---- summarization trigger under concurrency
\* The requests that performed a summarization for conversation length m.
SummarizedFor(m) == { r \in Reqs : req[r].summarizedLength = m }

\* The lengths the conversation of user id reached through the exchanges the
\* two requests stored.
ReachedLengths(id) ==
    { m \in 1..Len(StoredEntries(id)) :
        m > Len(StoredEntries(id)) - 2 * Cardinality({ r \in Reqs : StoredExchange(r) }) }

\* C19: when two requests of one user have been handled with their awaits
\* interleaved, each has stored its exchange and each has read the
\* conversation in summarizeAndStoreMemory, then for every positive multiple
\* of 10 the conversation reached exactly one summarization was performed.
C19_OneSummaryPerTrigger ==
    /\ BothFinished
    /\ \A r \in Reqs : StoredExchange(r) /\ req[r].summaryRead /\ req[r].userId = U1
    => \A m \in ReachedLengths(U1) :
          PositiveMultipleOfTen(m) => Cardinality(SummarizedFor(m)) = 1

====
